---- MODULE Spec2Model ----
(***************************************************************************)
(* Model of QueryPlanModifier (src/whatif.py): the original and working    *)
(* snapshots of a query plan, the modification log, operator and join      *)
(* order modification, planner hint and SQL directive synthesis, cost      *)
(* comparison and reset; and of the handlers of QueryPlanAnalysisSystem    *)
(* (src/project.py) that drive it.                                         *)
(*                                                                         *)
(* Python objects live in a heap: a plan node is a dict at an address, and *)
(* id(node) is that address.  A dict is a function from its keys to its    *)
(* values, so `'Plans' in node` is "Plans" \in DOMAIN node.  A Python str  *)
(* is a sequence of one-character strings, so that lower(), replace() and  *)
(* the `in` substring test are computed, not assumed.                      *)
(***************************************************************************)
EXTENDS Integers, Sequences, FiniteSets, TLC

VARIABLES heap, plan, given, original_plan, modified_plan, modifications, call, last, gui

vars == <<heap, plan, given, original_plan, modified_plan, modifications, call, last, gui>>

-----------------------------------------------------------------------------
(* Bounds of the model *)

\* addresses 1..MaxAddr; room for the caller's plan, both snapshots and the
\* copy under construction
MaxAddr == 12
\* longest modification log explored
MaxMods == 2
\* longest id list handed to modify_join_order
MaxIds == 3

Addr == 1..MaxAddr

\* Python's None is falsy like the empty dict; every use of a snapshot in the
\* code is `not self.xxx_plan`, so both are the function with empty domain
None == <<>>

\* "no node": the None of `return None, None`
NULL == 0

-----------------------------------------------------------------------------
(* Python str *)

HashJoin == <<"H","a","s","h"," ","J","o","i","n">>
MergeJoin == <<"M","e","r","g","e"," ","J","o","i","n">>
NestedLoop == <<"N","e","s","t","e","d"," ","L","o","o","p">>
IndexScan == <<"I","n","d","e","x"," ","S","c","a","n">>
SeqScan == <<"S","e","q"," ","S","c","a","n">>
BitmapScan == <<"B","i","t","m","a","p"," ","S","c","a","n">>
BitmapHeapScan == <<"B","i","t","m","a","p"," ","H","e","a","p"," ","S","c","a","n">>
IndexOnlyScan == <<"I","n","d","e","x"," ","O","n","l","y"," ","S","c","a","n">>
SortKind == <<"S","o","r","t">>

Orders == <<"o","r","d","e","r","s">>
Customer == <<"c","u","s","t","o","m","e","r">>
Nonexistent == <<"n","o","n","e","x","i","s","t","e","n","t">>

ENABLE_HASHJOIN == <<"e","n","a","b","l","e","_","h","a","s","h","j","o","i","n">>
ENABLE_MERGEJOIN == <<"e","n","a","b","l","e","_","m","e","r","g","e","j","o","i","n">>
ENABLE_NESTLOOP == <<"e","n","a","b","l","e","_","n","e","s","t","l","o","o","p">>
ENABLE_INDEXSCAN == <<"e","n","a","b","l","e","_","i","n","d","e","x","s","c","a","n">>
ENABLE_SEQSCAN == <<"e","n","a","b","l","e","_","s","e","q","s","c","a","n">>
ENABLE_BITMAPSCAN == <<"e","n","a","b","l","e","_","b","i","t","m","a","p","s","c","a","n">>

\* the values of the PlannerMethod enumeration
PlannerMethod ==
    {ENABLE_HASHJOIN, ENABLE_MERGEJOIN, ENABLE_NESTLOOP,
     ENABLE_INDEXSCAN, ENABLE_SEQSCAN, ENABLE_BITMAPSCAN}

UpperToLower ==
    [c \in {"A","B","C","D","E","F","G","H","I","J","K","L","M","N","O","P",
            "Q","R","S","T","U","V","W","X","Y","Z"} |->
        CASE c = "A" -> "a" [] c = "B" -> "b" [] c = "C" -> "c" [] c = "D" -> "d"
          [] c = "E" -> "e" [] c = "F" -> "f" [] c = "G" -> "g" [] c = "H" -> "h"
          [] c = "I" -> "i" [] c = "J" -> "j" [] c = "K" -> "k" [] c = "L" -> "l"
          [] c = "M" -> "m" [] c = "N" -> "n" [] c = "O" -> "o" [] c = "P" -> "p"
          [] c = "Q" -> "q" [] c = "R" -> "r" [] c = "S" -> "s" [] c = "T" -> "t"
          [] c = "U" -> "u" [] c = "V" -> "v" [] c = "W" -> "w" [] c = "X" -> "x"
          [] c = "Y" -> "y" [] c = "Z" -> "z"]

\* str.lower()
Lower(s) ==
    [i \in 1..Len(s) |-> IF s[i] \in DOMAIN UpperToLower THEN UpperToLower[s[i]] ELSE s[i]]

\* str.replace(' ', '')
RECURSIVE StripSpaces(_)
StripSpaces(s) ==
    IF s = <<>> THEN <<>>
    ELSE IF Head(s) = " " THEN StripSpaces(Tail(s))
    ELSE <<Head(s)>> \o StripSpaces(Tail(s))

\* `sub in s` for two str
Contains(sub, s) ==
    \E i \in 0..(Len(s) - Len(sub)) :
        \A j \in 1..Len(sub) : s[i + j] = sub[j]

DigitValue ==
    [c \in {"0","1","2","3","4","5","6","7","8","9"} |->
        CASE c = "0" -> 0 [] c = "1" -> 1 [] c = "2" -> 2 [] c = "3" -> 3
          [] c = "4" -> 4 [] c = "5" -> 5 [] c = "6" -> 6 [] c = "7" -> 7
          [] c = "8" -> 8 [] c = "9" -> 9]

DigitChar == <<"0","1","2","3","4","5","6","7","8","9">>

\* int(s) raises ValueError unless s is a decimal numeral (signs, blanks
\* and underscores, which int() also accepts, are not among the ids drawn)
IsInt(s) == Len(s) > 0 /\ \A i \in 1..Len(s) : s[i] \in DOMAIN DigitValue

\* int(s) for a decimal numeral s
RECURSIVE IntOf(_)
IntOf(s) ==
    IF s = <<>> THEN 0
    ELSE 10 * IntOf(SubSeq(s, 1, Len(s) - 1)) + DigitValue[s[Len(s)]]

\* str(n) for n >= 0: how a caller turns id(node) into a node id
RECURSIVE StrOf(_)
StrOf(n) ==
    IF n < 10 THEN <<DigitChar[n + 1]>>
    ELSE StrOf(n \div 10) \o <<DigitChar[(n % 10) + 1]>>

-----------------------------------------------------------------------------
(* The heap of plan nodes *)

\* dict.get(k, default)
Get(d, k, default) == IF k \in DOMAIN d THEN d[k] ELSE default

\* `not x` for a dict or None
Falsy(x) == DOMAIN x = {}

\* node.get('Plans', [])
Kids(h, a) == Get(h[a], "Plans", <<>>)

Range(s) == {s[i] : i \in DOMAIN s}

\* the nodes reachable from the nodes of X through child lists
RECURSIVE Closure(_, _, _)
Closure(h, X, n) ==
    LET Y == X \cup UNION {Range(Kids(h, a)) : a \in X}
    IN  IF n = 0 \/ Y = X THEN X ELSE Closure(h, Y, n - 1)

\* the root node an envelope dict {'Plan': root} refers to, if any
Roots(env) == IF "Plan" \in DOMAIN env THEN {env["Plan"]} ELSE {}

Reach(h, env) == Closure(h, Roots(env), MaxAddr)

\* the nodes of the tree under a in pre-order, left to right: the order in
\* which deepcopy creates the copies (fuel guards against a cyclic graph)
RECURSIVE PreOrder(_, _, _)
RECURSIVE PreOrderList(_, _, _)
PreOrder(h, a, fuel) ==
    IF fuel = 0 THEN <<a>> ELSE <<a>> \o PreOrderList(h, Kids(h, a), fuel - 1)
PreOrderList(h, kids, fuel) ==
    IF kids = <<>> THEN <<>>
    ELSE PreOrder(h, Head(kids), fuel) \o PreOrderList(h, Tail(kids), fuel)

\* the value of the tree under a: the node with its child list replaced by
\* the values of the children; two trees are == in Python iff these are equal
RECURSIVE TreeVal(_, _, _)
TreeVal(h, a, fuel) ==
    IF "Plans" \in DOMAIN h[a] /\ fuel > 0
    THEN [k \in DOMAIN h[a] |->
            IF k = "Plans"
            THEN [i \in DOMAIN h[a]["Plans"] |-> TreeVal(h, h[a]["Plans"][i], fuel - 1)]
            ELSE h[a][k]]
    ELSE h[a]

\* the value of a whole plan (envelope and tree)
PlanVal(h, env) ==
    IF "Plan" \in DOMAIN env
    THEN [k \in DOMAIN env |-> TreeVal(h, env["Plan"], MaxAddr)]
    ELSE env

\* the n lowest addresses of S in ascending order
RECURSIVE TakeLow(_, _)
TakeLow(S, n) ==
    IF n = 0 THEN <<>>
    ELSE LET m == CHOOSE x \in S : \A y \in S : x <= y
         IN  <<m>> \o TakeLow(S \ {m}, n - 1)

\* where the allocator puts n new dicts: addresses are interchangeable and
\* freed ones are handed out again, so the lowest free addresses stand for
\* every placement; no placement when memory is exhausted
Placements(free, n) ==
    IF Cardinality(free) < n THEN {} ELSE {TakeLow(free, n)}

\* the number of dicts copy.deepcopy(env) allocates
CopySize(h, env) ==
    IF "Plan" \in DOMAIN env THEN Len(PreOrder(h, env["Plan"], MaxAddr)) ELSE 0

\* a plausible slip: the snapshot is the very object it should be a copy of
SnapshotAlias(h, env, addrs) == [heap |-> h, env |-> env]

\* copy.deepcopy(env): every node of the tree is copied to a new address,
\* child lists refer to the copies; deepcopy(None) is None
Snapshot(h, env, addrs) ==
    IF "Plan" \notin DOMAIN env THEN [heap |-> h, env |-> env]
    ELSE LET old == PreOrder(h, env["Plan"], MaxAddr)
             new(a) == addrs[CHOOSE i \in DOMAIN old : old[i] = a]
             copy(a) == [k \in DOMAIN h[a] |->
                           IF k = "Plans"
                           THEN [i \in DOMAIN h[a]["Plans"] |-> new(h[a]["Plans"][i])]
                           ELSE h[a][k]]
             cells == [b \in Range(addrs) |->
                           copy(old[CHOOSE i \in DOMAIN addrs : addrs[i] = b])]
         IN  [heap |-> [b \in DOMAIN h \cup DOMAIN cells |->
                           IF b \in DOMAIN cells THEN cells[b] ELSE h[b]],
              env  |-> [k \in DOMAIN env |-> IF k = "Plan" THEN new(env["Plan"]) ELSE env[k]]]

\* reference counting: a dict no snapshot and no caller refers to is freed
Collect(h, envs) ==
    LET live == Closure(h, UNION {Roots(e) : e \in envs}, MaxAddr)
    IN  [a \in live |-> h[a]]

-----------------------------------------------------------------------------
(* The plans a caller supplies: the JSON of EXPLAIN (FORMAT JSON), parsed  *)
(* into dicts of the caller at the addresses of PlanRegion                  *)

Node(type, startup, total, rows, width) ==
    [k \in {"Node Type", "Startup Cost", "Total Cost", "Plan Rows", "Plan Width"} |->
        CASE k = "Node Type" -> type
          [] k = "Startup Cost" -> startup
          [] k = "Total Cost" -> total
          [] k = "Plan Rows" -> rows
          [] k = "Plan Width" -> width]

With(d, k, v) == [x \in DOMAIN d \cup {k} |-> IF x = k THEN v ELSE d[x]]

\* a hash join of two scans; leaf nodes carry no 'Plans' key
JoinPlan ==
    [env |-> [Plan |-> 1],
     nodes |-> << With(Node(HashJoin, 10, 1000, 500, 20), "Plans", <<2, 3>>),
                  With(Node(SeqScan, 0, 300, 500, 12), "Relation Name", Orders),
                  With(Node(IndexScan, 1, 200, 50, 8), "Relation Name", Customer) >>]

\* a chain whose leaf carries no 'Plans' key
ChainPlan ==
    [env |-> [Plan |-> 1],
     nodes |-> << With(Node(MergeJoin, 5, 800, 100, 16), "Plans", <<2>>),
                  With(Node(SortKind, 4, 400, 100, 16), "Plans", <<3>>),
                  With(Node(SeqScan, 0, 300, 100, 16), "Relation Name", Orders) >>]

\* a chain whose leaf carries an empty 'Plans' list
ListPlan ==
    [env |-> [Plan |-> 1],
     nodes |-> << With(Node(NestedLoop, 2, 600, 40, 24), "Plans", <<2>>),
                  With(Node(HashJoin, 1, 500, 40, 24), "Plans", <<3>>),
                  With(With(Node(IndexScan, 0, 100, 40, 8), "Relation Name", Customer),
                       "Plans", <<>>) >>]

PlanInputs == {JoinPlan, ChainPlan, ListPlan}

\* the addresses the caller's own dicts occupy
PlanRegion == UNION {DOMAIN p.nodes : p \in PlanInputs}

-----------------------------------------------------------------------------
(* QueryPlanModifier *)

\* PlanModification(node_id, current_type, target_type, affected_tables)
PlanModification(node_id, current_type, target_type, affected_tables) ==
    [node_id |-> node_id, current_type |-> current_type,
     target_type |-> target_type, affected_tables |-> affected_tables]

\* no call is pending
Idle == [op |-> "idle", args |-> <<>>]

\* what the presentation layer shows: the plan and the alternative plan it
\* was given and the cost comparison (an error message is a dialog, shown
\* and gone)
Blank == [qep |-> None, aqp |-> None, comparison |-> None]

\* __init__; `call` is the call the caller has issued and the modifier has
\* not yet run, `last` the last call run and the value it returned (for a
\* reset also what it discarded), `given` the value the caller's plan had
\* when it was handed to set_original_plan, `gui` what the presentation
\* layer shows
Init ==
    /\ heap = <<>>
    /\ plan = None
    /\ given = None
    /\ original_plan = None
    /\ modified_plan = None
    /\ modifications = <<>>
    /\ call = Idle
    /\ last = [op |-> "__init__", ret |-> None]
    /\ gui = Blank

\* the addresses a new dict can get: not the caller's, not a live dict's
Free(h) == (Addr \ PlanRegion) \ DOMAIN h

\* set_original_plan(plan), called with a plan the caller has just built
SetOriginalPlan ==
    /\ call.op = "set_original_plan"
    /\ LET p  == call.args[1]
           h0 == [a \in (DOMAIN heap \ PlanRegion) \cup DOMAIN p.nodes |->
                     IF a \in DOMAIN p.nodes THEN p.nodes[a] ELSE heap[a]]
           n  == CopySize(h0, p.env)
       IN  \E a1 \in Placements(Free(h0), n) :
             LET s1 == Snapshot(h0, p.env, a1)
                 h1 == Collect(s1.heap, {p.env, s1.env, modified_plan})
             IN  \E a2 \in Placements(Free(h1), n) :
                   LET s2 == Snapshot(h1, p.env, a2)
                   IN  /\ plan' = p.env
                       /\ given' = PlanVal(h0, p.env)
                       /\ original_plan' = s1.env
                       /\ modified_plan' = s2.env
                       /\ heap' = Collect(s2.heap, {p.env, s1.env, s2.env})
    /\ UNCHANGED <<modifications, gui>>
    /\ call' = Idle
    /\ last' = [op |-> "set_original_plan", ret |-> None]

\* traverse of find_node: the node whose id() is target and its parent, in
\* pre-order; <<NULL, NULL>> when there is none
RECURSIVE traverse(_, _, _, _, _)
RECURSIVE traverse_children(_, _, _, _, _)
traverse(h, node, parent, target, fuel) ==
    IF node = target THEN <<node, parent>>
    ELSE IF fuel = 0 THEN <<NULL, NULL>>
    ELSE traverse_children(h, Kids(h, node), node, target, fuel - 1)
traverse_children(h, kids, node, target, fuel) ==
    IF kids = <<>> THEN <<NULL, NULL>>
    ELSE LET result == traverse(h, Head(kids), node, target, fuel)
         IN  IF result[1] # NULL /\ ~Falsy(h[result[1]]) THEN result
             ELSE traverse_children(h, Tail(kids), node, target, fuel)

\* find_node(plan, node_id); int(node_id) has been seen not to raise
find_node(h, env, node_id) == traverse(h, env["Plan"], NULL, IntOf(node_id), MaxAddr)

\* a plausible slip: an id that resolves to no node is skipped
RECURSIVE CollectNodesSkipping(_, _, _, _)
CollectNodesSkipping(h, env, node_ids, nodes) ==
    IF node_ids = <<>> THEN [ok |-> TRUE, nodes |-> nodes]
    ELSE IF "Plan" \notin DOMAIN env \/ ~IsInt(Head(node_ids))
         THEN CollectNodesSkipping(h, env, Tail(node_ids), nodes)
    ELSE LET found == find_node(h, env, Head(node_ids))
         IN  IF found[1] # NULL /\ ~Falsy(h[found[1]])
             THEN CollectNodesSkipping(h, env, Tail(node_ids), Append(nodes, found[1]))
             ELSE CollectNodesSkipping(h, env, Tail(node_ids), nodes)

\* the collection loop of modify_join_order: the nodes the ids resolve to;
\* ok = FALSE at the first id that raises or resolves to no node
RECURSIVE CollectNodes(_, _, _, _)
CollectNodes(h, env, node_ids, nodes) ==
    IF node_ids = <<>> THEN [ok |-> TRUE, nodes |-> nodes]
    ELSE IF "Plan" \notin DOMAIN env \/ ~IsInt(Head(node_ids))
         THEN [ok |-> FALSE, nodes |-> nodes]
    ELSE LET found == find_node(h, env, Head(node_ids))
         IN  IF found[1] # NULL /\ ~Falsy(h[found[1]])
             THEN CollectNodes(h, env, Tail(node_ids), Append(nodes, found[1]))
             ELSE [ok |-> FALSE, nodes |-> nodes]

\* a plausible slip: two assignments in a row instead of the tuple assignment
SwapPlansOverwriting(h, a, b) ==
    [x \in DOMAIN h |->
        IF x = a \/ x = b THEN [h[x] EXCEPT !["Plans"] = h[b]["Plans"]] ELSE h[x]]

\* a plausible slip: only the first node is given the other's child list
SwapPlansFirstOnly(h, a, b) ==
    [x \in DOMAIN h |->
        IF x = a THEN [h[a] EXCEPT !["Plans"] = h[b]["Plans"]] ELSE h[x]]

\* nodes[i]['Plans'], nodes[i + 1]['Plans'] = nodes[i + 1]['Plans'], nodes[i]['Plans']
SwapPlans(h, a, b) ==
    [x \in DOMAIN h |->
        IF x = b THEN [h[b] EXCEPT !["Plans"] = h[a]["Plans"]]
        ELSE IF x = a THEN [h[a] EXCEPT !["Plans"] = h[b]["Plans"]]
        ELSE h[x]]

\* the reordering loop of modify_join_order from index i on; reading a
\* missing 'Plans' raises KeyError, which ends the loop where it stands
RECURSIVE Reorder(_, _, _)
Reorder(h, nodes, i) ==
    IF i > Len(nodes) - 1 THEN [ok |-> TRUE, heap |-> h]
    ELSE IF "Plans" \notin DOMAIN h[nodes[i + 1]] \/ "Plans" \notin DOMAIN h[nodes[i]]
         THEN [ok |-> FALSE, heap |-> h]
    ELSE Reorder(SwapPlans(h, nodes[i], nodes[i + 1]), nodes, i + 1)

\* a plausible slip: the test for a missing plan is left out
JoinOrderResultUnguarded(h, env, node_ids) ==
    LET c == CollectNodes(h, env, node_ids, <<>>)
    IN  IF ~c.ok THEN [ok |-> FALSE, heap |-> h]
        ELSE Reorder(h, c.nodes, 1)

\* modify_join_order(node_ids): the value returned and the heap it leaves
JoinOrderResult(h, env, node_ids) ==
    IF Falsy(env) THEN [ok |-> FALSE, heap |-> h]
    ELSE LET c == CollectNodes(h, env, node_ids, <<>>)
         IN  IF ~c.ok THEN [ok |-> FALSE, heap |-> h]
             ELSE Reorder(h, c.nodes, 1)

\* modify_join_order(node_ids); the dicts no longer referred to are freed
ModifyJoinOrder ==
    /\ call.op = "modify_join_order"
    /\ LET r == JoinOrderResult(heap, modified_plan, call.args[1])
       IN  /\ heap' = Collect(r.heap, {plan, original_plan, modified_plan})
           /\ last' = [op |-> "modify_join_order", ret |-> r.ok]
    /\ UNCHANGED <<plan, given, original_plan, modified_plan, modifications, gui>>
    /\ call' = Idle

\* a plausible slip: the id test is left out and the first node visited is taken
LocateFirstVisited(h, node, target, fuel) == node

\* traverse_and_modify's search: the first node in pre-order whose id() is
\* target, NULL when there is none
RECURSIVE Locate(_, _, _, _)
RECURSIVE LocateChildren(_, _, _, _)
Locate(h, node, target, fuel) ==
    IF node = target THEN node
    ELSE IF fuel = 0 THEN NULL
    ELSE LocateChildren(h, Kids(h, node), target, fuel - 1)
LocateChildren(h, kids, target, fuel) ==
    IF kids = <<>> THEN NULL
    ELSE LET found == Locate(h, Head(kids), target, fuel)
         IN  IF found # NULL THEN found ELSE LocateChildren(h, Tail(kids), target, fuel)

\* a plausible slip: the node is rebuilt and loses its relation name
RetypeLosingRelation(node, new_type) ==
    [k \in DOMAIN node \ {"Relation Name"} |->
        IF k = "Node Type" THEN new_type ELSE node[k]]

\* a plausible slip: the node is replaced by a new node of the new kind that
\* keeps the relation and the children and not the estimates
RetypeDroppingEstimates(node, new_type) ==
    [k \in DOMAIN node \cap {"Node Type", "Relation Name", "Plans"} |->
        IF k = "Node Type" THEN new_type ELSE node[k]]

\* node['Node Type'] = new_type
Retype(node, new_type) == [node EXCEPT !["Node Type"] = new_type]

\* a plausible slip: the old kind is read after the assignment
LogEntryAfterAssignment(node_id, node, new_type) ==
    PlanModification(node_id, new_type, new_type,
                     IF "Relation Name" \in DOMAIN node
                     THEN <<Get(node, "Relation Name", None)>> ELSE <<>>)

\* the PlanModification traverse_and_modify appends for a node
LogEntry(node_id, node, new_type) ==
    PlanModification(node_id, node["Node Type"], new_type,
                     IF "Relation Name" \in DOMAIN node
                     THEN <<Get(node, "Relation Name", None)>> ELSE <<>>)

\* a plausible slip: the entry is put in front of the log
OperatorResultPrepending(h, env, mods, node_id, new_type) ==
    LET fail == [ok |-> FALSE, heap |-> h, mods |-> mods]
    IN  IF Falsy(env) THEN fail
        ELSE IF "Plan" \notin DOMAIN env \/ ~IsInt(node_id) THEN fail
        ELSE LET a == Locate(h, env["Plan"], IntOf(node_id), MaxAddr)
             IN  IF a = NULL \/ "Node Type" \notin DOMAIN h[a] THEN fail
                 ELSE [ok |-> TRUE,
                       heap |-> [h EXCEPT ![a] = Retype(h[a], new_type)],
                       mods |-> <<LogEntry(node_id, h[a], new_type)>> \o mods]

\* modify_operator(node_id, new_type): the value returned, the heap and the
\* log it leaves; any exception is caught and answered with False
OperatorResult(h, env, mods, node_id, new_type) ==
    LET fail == [ok |-> FALSE, heap |-> h, mods |-> mods]
    IN  IF Falsy(env) THEN fail
        ELSE IF "Plan" \notin DOMAIN env \/ ~IsInt(node_id) THEN fail
        ELSE LET a == Locate(h, env["Plan"], IntOf(node_id), MaxAddr)
             IN  IF a = NULL \/ "Node Type" \notin DOMAIN h[a] THEN fail
                 ELSE [ok |-> TRUE,
                       heap |-> [h EXCEPT ![a] = Retype(h[a], new_type)],
                       mods |-> Append(mods, LogEntry(node_id, h[a], new_type))]

\* modify_operator(node_id, new_type)
ModifyOperator ==
    /\ call.op = "modify_operator"
    /\ LET r == OperatorResult(heap, modified_plan, modifications,
                               call.args[1], call.args[2])
       IN  /\ heap' = r.heap
           /\ modifications' = r.mods
           /\ last' = [op |-> "modify_operator", ret |-> r.ok]
    /\ UNCHANGED <<plan, given, original_plan, modified_plan, gui>>
    /\ call' = Idle

\* a plausible slip: the working snapshot becomes the original, not a copy
ResetModificationsSharing ==
    /\ call.op = "reset_modifications"
    /\ modified_plan' = original_plan
    /\ heap' = Collect(heap, {plan, original_plan})
    /\ modifications' = <<>>
    /\ UNCHANGED <<plan, given, original_plan, gui>>
    /\ call' = Idle
    /\ last' = [op |-> "reset_modifications", ret |-> None,
                discarded |-> [log  |-> Len(modifications),
                               tree |-> PlanVal(heap, modified_plan)
                                            # PlanVal(heap, original_plan)]]

\* reset_modifications()
ResetModifications ==
    /\ call.op = "reset_modifications"
    /\ \E addrs \in Placements(Free(heap), CopySize(heap, original_plan)) :
         LET s == Snapshot(heap, original_plan, addrs)
         IN  /\ modified_plan' = s.env
             /\ heap' = Collect(s.heap, {plan, original_plan, s.env})
    /\ modifications' = <<>>
    /\ UNCHANGED <<plan, given, original_plan, gui>>
    /\ call' = Idle
    /\ last' = [op |-> "reset_modifications", ret |-> None,
                discarded |-> [log  |-> Len(modifications),
                               tree |-> PlanVal(heap, modified_plan)
                                            # PlanVal(heap, original_plan)]]

\* f"enable_{type.lower().replace(' ', '')}"
HintKey(type) ==
    <<"e","n","a","b","l","e","_">> \o StripSpaces(Lower(type))

\* hints[key] = value: the key is added when the dict does not have it
SetItem(d, key, value) ==
    [k \in DOMAIN d \cup {key} |-> IF k = key THEN value ELSE d[k]]

\* the body of the loop of generate_planner_hints for one modification
ApplyModification(hints, mod) ==
    IF mod.current_type # mod.target_type
    THEN LET disabled ==
                 IF Contains(<<"J","o","i","n">>, mod.current_type)
                 THEN SetItem(hints, HintKey(mod.current_type), FALSE)
                 ELSE IF Contains(<<"S","c","a","n">>, mod.current_type)
                 THEN SetItem(hints, HintKey(mod.current_type), FALSE)
                 ELSE hints
         IN  IF Contains(<<"J","o","i","n">>, mod.target_type)
             THEN SetItem(disabled, HintKey(mod.target_type), TRUE)
             ELSE IF Contains(<<"S","c","a","n">>, mod.target_type)
             THEN SetItem(disabled, HintKey(mod.target_type), TRUE)
             ELSE disabled
    ELSE hints

\* generate_planner_hints(modifications)
RECURSIVE HintsFrom(_, _)
HintsFrom(hints, mods) ==
    IF mods = <<>> THEN hints
    ELSE HintsFrom(ApplyModification(hints, Head(mods)), Tail(mods))

generate_planner_hints(mods) ==
    HintsFrom([method \in PlannerMethod |-> TRUE], mods)

\* generate_planner_hints(self.modifications), as generate_modified_sql calls it
GeneratePlannerHints ==
    /\ call.op = "generate_planner_hints"
    /\ last' = [op |-> "generate_planner_hints",
                ret |-> generate_planner_hints(modifications)]
    /\ UNCHANGED <<heap, plan, given, original_plan, modified_plan, modifications, gui>>
    /\ call' = Idle

\* the outcome of a call that may raise: the value returned, or the name of
\* the exception that left the call
Returned(v) == [ok |-> TRUE, value |-> v]
Raised(e) == [ok |-> FALSE, value |-> e]

\* sep.join(strs)
RECURSIVE Join(_, _)
Join(sep, strs) ==
    IF strs = <<>> THEN <<>>
    ELSE IF Len(strs) = 1 THEN strs[1]
    ELSE strs[1] \o sep \o Join(sep, Tail(strs))

\* the join hint loop of generate_modified_sql
RECURSIVE JoinHints(_, _)
JoinHints(hint_string, mods) ==
    IF mods = <<>> THEN hint_string
    ELSE LET mod == Head(mods)
         IN  IF Contains(<<"J","o","i","n">>, mod.target_type)
             THEN JoinHints(hint_string \o StripSpaces(mod.target_type) \o <<"(">>
                                \o Join(<<",">>, mod.affected_tables) \o <<")", " ">>,
                            Tail(mods))
             ELSE JoinHints(hint_string, Tail(mods))

\* the scan hint loop of generate_modified_sql; affected_tables[0] of an
\* empty list raises IndexError
RECURSIVE ScanHints(_, _)
ScanHints(hint_string, mods) ==
    IF mods = <<>> THEN Returned(hint_string)
    ELSE LET mod == Head(mods)
         IN  IF Contains(<<"S","c","a","n">>, mod.target_type)
             THEN IF mod.affected_tables = <<>> THEN Raised("IndexError")
                  ELSE ScanHints(hint_string \o StripSpaces(mod.target_type) \o <<"(">>
                                     \o mod.affected_tables[1] \o <<")", " ">>,
                                 Tail(mods))
             ELSE ScanHints(hint_string, Tail(mods))

\* generate_modified_sql(original_sql) on a log
generate_modified_sql(mods, original_sql) ==
    LET hints == generate_planner_hints(mods)
        scans == ScanHints(JoinHints(<<"/","*","+"," ">>, mods), mods)
    IN  IF DOMAIN hints # {} /\ scans.ok
        THEN Returned(scans.value \o <<"*","/"," ">> \o original_sql)
        ELSE scans

\* generate_modified_sql(original_sql)
GenerateModifiedSql ==
    /\ call.op = "generate_modified_sql"
    /\ last' = [op |-> "generate_modified_sql",
                ret |-> generate_modified_sql(modifications, call.args[1])]
    /\ UNCHANGED <<heap, plan, given, original_plan, modified_plan, modifications, gui>>
    /\ call' = Idle

\* the greatest common divisor of two naturals, not both 0
RECURSIVE GCD(_, _)
GCD(a, b) == IF b = 0 THEN a ELSE GCD(b, a % b)

Abs(a) == IF a < 0 THEN -a ELSE a

\* a / b of two Python numbers, b # 0: the quotient, kept as the fraction in
\* lowest terms with a positive denominator
Quotient(a, b) ==
    LET g == GCD(Abs(a), Abs(b))
        s == IF b < 0 THEN -1 ELSE 1
    IN  [num |-> s * (a \div g), den |-> s * (b \div g)]

\* q * k for a quotient q and an integer k
Scaled(q, k) == Quotient(q.num * k, q.den)

\* extract_metrics(plan)
extract_metrics(h, env) ==
    [total_cost   |-> Get(h[env["Plan"]], "Total Cost", 0),
     startup_cost |-> Get(h[env["Plan"]], "Startup Cost", 0),
     plan_rows    |-> Get(h[env["Plan"]], "Plan Rows", 0),
     plan_width   |-> Get(h[env["Plan"]], "Plan Width", 0)]

\* a plausible slip: the percentage is taken of the modified cost
compare_plans_over_modified(h, original, modified) ==
    IF Falsy(original) \/ Falsy(modified) THEN Returned(<<>>)
    ELSE IF "Plan" \notin DOMAIN original \/ "Plan" \notin DOMAIN modified
         THEN Raised("KeyError")
    ELSE LET original_metrics == extract_metrics(h, original)
             modified_metrics == extract_metrics(h, modified)
             difference == modified_metrics.total_cost - original_metrics.total_cost
         IN  IF modified_metrics.total_cost = 0 THEN Raised("ZeroDivisionError")
             ELSE Returned(
                    [cost_difference  |-> difference,
                     cost_percentage  |->
                         Scaled(Quotient(difference, modified_metrics.total_cost), 100),
                     original_metrics |-> original_metrics,
                     modified_metrics |-> modified_metrics])

\* compare_plans() on the two snapshots; {} when one is missing, plan['Plan']
\* raises KeyError on a snapshot without that key, and the division raises
\* ZeroDivisionError when the original total cost is 0
compare_plans(h, original, modified) ==
    IF Falsy(original) \/ Falsy(modified) THEN Returned(<<>>)
    ELSE IF "Plan" \notin DOMAIN original \/ "Plan" \notin DOMAIN modified
         THEN Raised("KeyError")
    ELSE LET original_metrics == extract_metrics(h, original)
             modified_metrics == extract_metrics(h, modified)
             difference == modified_metrics.total_cost - original_metrics.total_cost
         IN  IF original_metrics.total_cost = 0 THEN Raised("ZeroDivisionError")
             ELSE Returned(
                    [cost_difference  |-> difference,
                     cost_percentage  |->
                         Scaled(Quotient(difference, original_metrics.total_cost), 100),
                     original_metrics |-> original_metrics,
                     modified_metrics |-> modified_metrics])

\* compare_plans()
ComparePlans ==
    /\ call.op = "compare_plans"
    /\ last' = [op |-> "compare_plans",
                ret |-> compare_plans(heap, original_plan, modified_plan)]
    /\ UNCHANGED <<heap, plan, given, original_plan, modified_plan, modifications, gui>>
    /\ call' = Idle

-----------------------------------------------------------------------------
(* The calls a caller makes *)

\* the operator kinds a caller asks for
NewTypes == {SeqScan}

\* the ids a caller hands in: str(id(node)) of a node of the working tree
\* or of the root of the caller's own plan, or no number
NodeIds ==
    {StrOf(a) : a \in Reach(heap, modified_plan) \cup Roots(plan)} \cup {Nonexistent}

RECURSIVE SeqsUpTo(_, _)
SeqsUpTo(S, n) ==
    IF n = 0 THEN {<<>>}
    ELSE LET shorter == SeqsUpTo(S, n - 1)
         IN  shorter \cup {Append(s, x) : s \in shorter, x \in S}

\* one plan per modifier: the first call sets it
SetCalls ==
    IF Falsy(plan)
    THEN {[op |-> "set_original_plan", args |-> <<p>>] : p \in PlanInputs}
    ELSE {}

OperatorCalls(types) ==
    IF Len(modifications) < MaxMods
    THEN {[op |-> "modify_operator", args |-> <<node_id, new_type>>] :
              node_id \in NodeIds, new_type \in types}
    ELSE {}

JoinOrderCalls ==
    {[op |-> "modify_join_order", args |-> <<node_ids>>] :
         node_ids \in SeqsUpTo(NodeIds, MaxIds)}

ResetCalls == {[op |-> "reset_modifications", args |-> <<>>]}

\* the caller issues a call
Request(c) ==
    /\ call = Idle
    /\ call' = c
    /\ UNCHANGED <<heap, plan, given, original_plan, modified_plan, modifications, last, gui>>

Next ==
    \/ \E c \in SetCalls \cup OperatorCalls(NewTypes) \cup JoinOrderCalls \cup ResetCalls :
          Request(c)
    \/ SetOriginalPlan
    \/ ModifyOperator
    \/ ModifyJoinOrder
    \/ ResetModifications

Spec == Init /\ [][Next]_vars

\* The calls that build a modification log and read the hints off it:
\* operator changes to every kind, no reordering and no reset
AllTypes ==
    {HashJoin, MergeJoin, NestedLoop, IndexScan, SeqScan, BitmapScan,
     BitmapHeapScan, IndexOnlyScan, SortKind}

HintsCalls == {[op |-> "generate_planner_hints", args |-> <<>>]}

WorkingIds == {StrOf(a) : a \in Reach(heap, modified_plan)}

NextHints ==
    \/ \E c \in (IF Falsy(plan)
                 THEN {[op |-> "set_original_plan", args |-> <<p>>] : p \in {JoinPlan, ListPlan}}
                 ELSE {})
            \cup (IF Len(modifications) < MaxMods
                  THEN {[op |-> "modify_operator", args |-> <<node_id, new_type>>] :
                            node_id \in WorkingIds, new_type \in AllTypes}
                  ELSE {})
            \cup HintsCalls :
          Request(c)
    \/ SetOriginalPlan
    \/ ModifyOperator
    \/ GeneratePlannerHints

SpecHints == Init /\ [][NextHints]_vars

\* The calls that build a modification log and read the directive off it
Select1 == <<"S","E","L","E","C","T"," ","1">>
Queries == {Select1, <<>>}

SqlCalls == {[op |-> "generate_modified_sql", args |-> <<sql>>] : sql \in Queries}

NextSql ==
    \/ \E c \in (IF Falsy(plan)
                 THEN {[op |-> "set_original_plan", args |-> <<p>>] : p \in {JoinPlan, ListPlan}}
                 ELSE {})
            \cup (IF Len(modifications) < MaxMods
                  THEN {[op |-> "modify_operator", args |-> <<node_id, new_type>>] :
                            node_id \in WorkingIds, new_type \in AllTypes}
                  ELSE {})
            \cup SqlCalls :
          Request(c)
    \/ SetOriginalPlan
    \/ ModifyOperator
    \/ GenerateModifiedSql

SpecSql == Init /\ [][NextSql]_vars

\* compare_plans as a function of the two snapshots a modifier holds: the
\* snapshots are single roots drawn from the costs below (a root may lack
\* its 'Total Cost'), or missing
CompareCalls == {[op |-> "compare_plans", args |-> <<>>]}

TotalCosts == {0, 50, 1000, 1200}
StartupCosts == {10, 12}

Without(d, k) == [x \in DOMAIN d \ {k} |-> d[x]]

CompareRoots ==
    {Node(HashJoin, s, t, 500, 20) : s \in StartupCosts, t \in TotalCosts}
        \cup {Without(Node(HashJoin, s, 0, 500, 20), "Total Cost") : s \in StartupCosts}

\* where the root of the original and of the working snapshot live
OriginalRoot == MaxAddr - 1
ModifiedRoot == MaxAddr

InitCompare ==
    /\ \E present \in SUBSET {OriginalRoot, ModifiedRoot} :
         /\ heap \in [present -> CompareRoots]
         /\ original_plan = IF OriginalRoot \in present THEN [Plan |-> OriginalRoot] ELSE None
         /\ modified_plan = IF ModifiedRoot \in present THEN [Plan |-> ModifiedRoot] ELSE None
    /\ plan = None
    /\ given = None
    /\ modifications = <<>>
    /\ call = Idle
    /\ last = [op |-> "__init__", ret |-> None]
    /\ gui = Blank

NextCompare ==
    \/ \E c \in CompareCalls : Request(c)
    \/ ComparePlans

SpecCompare == InitCompare /\ [][NextCompare]_vars

-----------------------------------------------------------------------------
(* QueryPlanAnalysisSystem: the handlers bound to the presentation layer *)

\* a plan of one scan whose costs are all 0
ZeroPlan ==
    [env |-> [Plan |-> 1],
     nodes |-> << With(Node(SeqScan, 0, 0, 0, 0), "Relation Name", Orders) >>]

\* what preprocessor.get_query_plan answers for the first query
InitialPlans == {JoinPlan, ZeroPlan}

\* what preprocessor.get_query_plan answers for an annotated query: a plan
\* as parsed from the planner's JSON, or the database error it re-raises
NewPlans ==
    {[Plan |-> Node(MergeJoin, 10, 1200, 500, 20)],
     [Plan |-> Node(HashJoin, 10, 1000, 500, 20)]}
Answers == {Returned(p) : p \in NewPlans} \cup {Raised("Error")}

\* handle_generate_plan(sql): an empty query is refused by validate_sql;
\* otherwise the plan the planner answers is set on the modifier and shown
HandleGeneratePlan ==
    /\ call.op = "handle_generate_plan"
    /\ IF StripSpaces(call.args[1]) = <<>>
       THEN /\ last' = [op |-> "handle_generate_plan", ret |-> None,
                        shown |-> "Invalid SQL"]
            /\ UNCHANGED <<heap, plan, given, original_plan, modified_plan, gui>>
       ELSE \E p \in InitialPlans :
              LET h0 == [a \in (DOMAIN heap \ PlanRegion) \cup DOMAIN p.nodes |->
                            IF a \in DOMAIN p.nodes THEN p.nodes[a] ELSE heap[a]]
                  n  == CopySize(h0, p.env)
              IN  \E a1 \in Placements(Free(h0), n) :
                    LET s1 == Snapshot(h0, p.env, a1)
                        h1 == Collect(s1.heap, {p.env, s1.env, modified_plan})
                    IN  \E a2 \in Placements(Free(h1), n) :
                          LET s2 == Snapshot(h1, p.env, a2)
                          IN  /\ plan' = p.env
                              /\ given' = PlanVal(h0, p.env)
                              /\ original_plan' = s1.env
                              /\ modified_plan' = s2.env
                              /\ heap' = Collect(s2.heap, {p.env, s1.env, s2.env})
                              /\ gui' = [gui EXCEPT !.qep = PlanVal(h0, p.env)]
                              /\ last' = [op |-> "handle_generate_plan", ret |-> None,
                                          shown |-> "plan"]
    /\ UNCHANGED modifications
    /\ call' = Idle

\* the part the two modification handlers share once the modifier has
\* answered success: the directive, the planner's new plan, the comparison
\* and what the presentation layer is given; an exception of any of them
\* ends in show_error(message)
Present(h, mods, sql, answer, message) ==
    LET modified_sql == generate_modified_sql(mods, sql)
        comparison   == compare_plans(h, original_plan, modified_plan)
    IN  IF ~modified_sql.ok \/ ~answer.ok \/ ~comparison.ok
        THEN [gui |-> gui, shown |-> message]
        ELSE [gui |-> [gui EXCEPT !.aqp = answer.value,
                                  !.comparison = comparison.value],
              shown |-> "comparison"]

\* handle_operator_modification(node_id, new_operator_type)
HandleOperatorModification ==
    /\ call.op = "handle_operator_modification"
    /\ LET r == OperatorResult(heap, modified_plan, modifications,
                               call.args[1], call.args[2])
       IN  /\ heap' = r.heap
           /\ modifications' = r.mods
           /\ IF ~r.ok
              THEN /\ gui' = gui
                   /\ last' = [op |-> "handle_operator_modification", ret |-> None,
                               shown |-> "Failed to modify operator"]
              ELSE \E sql \in Queries, answer \in Answers :
                     LET out == Present(r.heap, r.mods, sql, answer,
                                        "Error modifying operator")
                     IN  /\ gui' = out.gui
                         /\ last' = [op |-> "handle_operator_modification",
                                     ret |-> None, shown |-> out.shown]
    /\ UNCHANGED <<plan, given, original_plan, modified_plan>>
    /\ call' = Idle

\* handle_join_order_modification(node_ids)
HandleJoinOrderModification ==
    /\ call.op = "handle_join_order_modification"
    /\ LET r == JoinOrderResult(heap, modified_plan, call.args[1])
           h == Collect(r.heap, {plan, original_plan, modified_plan})
       IN  /\ heap' = h
           /\ IF ~r.ok
              THEN /\ gui' = gui
                   /\ last' = [op |-> "handle_join_order_modification", ret |-> None,
                               shown |-> "Failed to modify join order"]
              ELSE \E sql \in Queries, answer \in Answers :
                     LET out == Present(h, modifications, sql, answer,
                                        "Error modifying join order")
                     IN  /\ gui' = out.gui
                         /\ last' = [op |-> "handle_join_order_modification",
                                     ret |-> None, shown |-> out.shown]
    /\ UNCHANGED <<plan, given, original_plan, modified_plan, modifications>>
    /\ call' = Idle

\* handle_reset()
HandleReset ==
    /\ call.op = "handle_reset"
    /\ \E addrs \in Placements(Free(heap), CopySize(heap, original_plan)) :
         LET s == Snapshot(heap, original_plan, addrs)
         IN  /\ modified_plan' = s.env
             /\ heap' = Collect(s.heap, {plan, original_plan, s.env})
    /\ modifications' = <<>>
    /\ gui' = [gui EXCEPT !.aqp = None, !.comparison = None]
    /\ UNCHANGED <<plan, given, original_plan>>
    /\ call' = Idle
    /\ last' = [op |-> "handle_reset", ret |-> None, shown |-> "reset"]
\* The events the presentation layer raises: a query, an operator change
\* or a join reordering of nodes of the plan shown, a reset; one plan per
\* session
TargetTypes == {SeqScan}

Events ==
    (IF Falsy(plan)
     THEN {[op |-> "handle_generate_plan", args |-> <<sql>>] : sql \in Queries}
     ELSE {})
        \cup (IF Len(modifications) < MaxMods
              THEN {[op |-> "handle_operator_modification", args |-> <<node_id, new_type>>] :
                        node_id \in WorkingIds \cup {Nonexistent}, new_type \in TargetTypes}
              ELSE {})
        \cup {[op |-> "handle_join_order_modification", args |-> <<node_ids>>] :
                  node_ids \in SeqsUpTo(WorkingIds, MaxIds - 1)}
        \cup {[op |-> "handle_reset", args |-> <<>>]}

NextSystem ==
    \/ \E c \in Events : Request(c)
    \/ HandleGeneratePlan
    \/ HandleOperatorModification
    \/ HandleJoinOrderModification
    \/ HandleReset

SpecSystem == Init /\ [][NextSystem]_vars

\* The whole life of a modifier: every method, called in any order; a new
\* plan may replace the single-scan plan at any time, with whatever the log
\* holds, and the join plan is the last plan of a session; ids may name
\* nodes of the working tree, the root of the original tree or of the
\* caller's plan, before and after a plan is set
\* a join over one scan; the scan carries an empty 'Plans' list
PairPlan ==
    [env |-> [Plan |-> 1],
     nodes |-> << With(Node(HashJoin, 10, 1000, 500, 20), "Plans", <<2>>),
                  With(With(Node(SeqScan, 0, 300, 500, 12), "Relation Name", Orders),
                       "Plans", <<>>) >>]

LifePlans == {PairPlan, ZeroPlan}

AnyIds ==
    {StrOf(a) : a \in Reach(heap, modified_plan) \cup Roots(original_plan)
                        \cup Roots(ZeroPlan.env)}
        \cup {Nonexistent}

ListIds == WorkingIds \cup {Nonexistent}

LifeCalls ==
    (IF Falsy(plan) \/ given = PlanVal(ZeroPlan.nodes, ZeroPlan.env)
     THEN {[op |-> "set_original_plan", args |-> <<p>>] : p \in LifePlans}
     ELSE {})
        \cup (IF Len(modifications) < MaxMods
              THEN {[op |-> "modify_operator", args |-> <<node_id, new_type>>] :
                        node_id \in AnyIds, new_type \in NewTypes}
              ELSE {})
        \cup {[op |-> "modify_join_order", args |-> <<node_ids>>] :
                  node_ids \in SeqsUpTo(ListIds, MaxIds - 1)}
        \cup ResetCalls
        \cup HintsCalls
        \cup {[op |-> "generate_modified_sql", args |-> <<Select1>>]}
        \cup CompareCalls

NextLife ==
    \/ \E c \in LifeCalls : Request(c)
    \/ SetOriginalPlan
    \/ ModifyOperator
    \/ ModifyJoinOrder
    \/ ResetModifications
    \/ GeneratePlannerHints
    \/ GenerateModifiedSql
    \/ ComparePlans

SpecLife == Init /\ [][NextLife]_vars

\* The calls that rearrange the working tree of one plan: operator changes
\* and join reorderings of up to MaxIds nodes of the working tree, in any
\* order and with repetitions, so that a list may name a node together with
\* its parent, its child or itself
NextOrder ==
    \/ \E c \in SetCalls
            \cup (IF Len(modifications) < MaxMods
                  THEN {[op |-> "modify_operator", args |-> <<node_id, new_type>>] :
                            node_id \in WorkingIds, new_type \in NewTypes}
                  ELSE {})
            \cup {[op |-> "modify_join_order", args |-> <<node_ids>>] :
                      node_ids \in SeqsUpTo(WorkingIds, MaxIds)} :
          Request(c)
    \/ SetOriginalPlan
    \/ ModifyOperator
    \/ ModifyJoinOrder

SpecOrder == Init /\ [][NextOrder]_vars

\* The plans a caller may hand in that are not what EXPLAIN (FORMAT JSON)
\* answers: a dict without the 'Plan' key, a root without 'Node Type', a
\* child without 'Node Type'
NoEnvelopePlan ==
    [env |-> [Query |-> 1], nodes |-> <<>>]

NoRootTypePlan ==
    [env |-> [Plan |-> 1],
     nodes |-> << With(Without(Node(HashJoin, 10, 1000, 500, 20), "Node Type"),
                       "Plans", <<2>>),
                  With(Node(SeqScan, 0, 300, 500, 12), "Relation Name", Orders) >>]

NoChildTypePlan ==
    [env |-> [Plan |-> 1],
     nodes |-> << With(Node(HashJoin, 10, 1000, 500, 20), "Plans", <<2>>),
                  With(With(Without(Node(SeqScan, 0, 300, 500, 12), "Node Type"),
                            "Relation Name", Orders),
                       "Plans", <<>>) >>]

AnyPlans == {NoEnvelopePlan, NoRootTypePlan, NoChildTypePlan, PairPlan}

\* The calls made on a modifier that was handed any dict as its plan
NextAnyPlan ==
    \/ \E c \in (IF Falsy(plan)
                 THEN {[op |-> "set_original_plan", args |-> <<p>>] : p \in AnyPlans}
                 ELSE {})
            \cup OperatorCalls(NewTypes)
            \cup {[op |-> "modify_join_order", args |-> <<node_ids>>] :
                      node_ids \in SeqsUpTo(NodeIds, MaxIds - 1)}
            \cup CompareCalls :
          Request(c)
    \/ SetOriginalPlan
    \/ ModifyOperator
    \/ ModifyJoinOrder
    \/ ComparePlans

SpecAnyPlan == Init /\ [][NextAnyPlan]_vars

-----------------------------------------------------------------------------
(* Properties *)

\* an id that identifies no node of the working tree
Unresolved(node_id) ==
    ~IsInt(node_id) \/ IntOf(node_id) \notin Reach(heap, modified_plan)

\* C1: once a plan has been set, a reset leaves the working tree equal in
\* structure and values to the plan that was set and the log empty, whatever
\* operator and join order modifications came before it.
C1_ResetRoundTrip ==
    (last.op = "reset_modifications" /\ ~Falsy(original_plan)) =>
        /\ PlanVal(heap, modified_plan) = given
        /\ modifications = <<>>

\* a reset that discarded a changed working tree and a non-empty log
C1_Witness ==
    /\ last.op = "reset_modifications"
    /\ ~Falsy(original_plan)
    /\ last.discarded.tree
    /\ last.discarded.log > 0

\* C2: a successful modify_operator(id, K) gives node id the kind K, leaves
\* every other attribute of that node as it was, and leaves every other node
\* as it was.
C2_OperatorLocality ==
    [][(call.op = "modify_operator" /\ last'.ret = TRUE) =>
          LET id == IntOf(call.args[1])
          IN  /\ id \in Reach(heap, modified_plan)
              /\ modified_plan' = modified_plan
              /\ DOMAIN heap' = DOMAIN heap
              /\ heap'[id]["Node Type"] = call.args[2]
              /\ DOMAIN heap'[id] = DOMAIN heap[id]
              /\ \A k \in DOMAIN heap[id] \ {"Node Type"} : heap'[id][k] = heap[id][k]
              /\ \A a \in DOMAIN heap \ {id} : heap'[a] = heap[a]]_vars

\* a successful modify_operator on a tree of several nodes, one of them with
\* a relation name
C2_Witness ==
    /\ last.op = "modify_operator"
    /\ last.ret = TRUE
    /\ Cardinality(Reach(heap, modified_plan)) > 1
    /\ \E a \in Reach(heap, modified_plan) :
          /\ StrOf(a) = modifications[Len(modifications)].node_id
          /\ "Relation Name" \in DOMAIN heap[a]

\* C3: a successful modify_operator(id, K) appends exactly one entry
\* (id, kind before the call, K, [relation name] or []) at the end of the
\* log; a second modification of the same node has the first one's new kind
\* as its prior kind.
C3_LogAppend ==
    [][(call.op = "modify_operator" /\ last'.ret = TRUE) =>
          LET id   == IntOf(call.args[1])
              n    == Len(modifications)
          IN  /\ modifications' =
                    Append(modifications,
                           [node_id |-> call.args[1],
                            current_type |-> heap[id]["Node Type"],
                            target_type |-> call.args[2],
                            affected_tables |->
                                IF "Relation Name" \in DOMAIN heap[id]
                                THEN <<heap[id]["Relation Name"]>> ELSE <<>>])
              /\ (n > 0 /\ modifications[n].node_id = call.args[1]) =>
                    modifications'[n + 1].current_type = modifications[n].target_type]_vars

\* the same node modified twice, first to another kind, then to the kind it
\* already has
C3_Witness ==
    /\ last.op = "modify_operator"
    /\ last.ret = TRUE
    /\ Len(modifications) = 2
    /\ modifications[1].node_id = modifications[2].node_id
    /\ modifications[1].current_type # modifications[1].target_type
    /\ modifications[2].current_type = modifications[2].target_type

\* C4: modify_operator with an id that identifies no node of the working
\* tree, a non-numeric id included, returns False and leaves the working
\* tree, the original tree and the log as they were.
C4_BadIdFails ==
    [][(call.op = "modify_operator" /\ Unresolved(call.args[1])) =>
          /\ last'.ret = FALSE
          /\ heap' = heap
          /\ modified_plan' = modified_plan
          /\ original_plan' = original_plan
          /\ modifications' = modifications]_vars

\* modify_operator has failed on a plan that is set and whose nodes all
\* carry a kind: the id identified no node
C4_Witness ==
    /\ last.op = "modify_operator"
    /\ last.ret = FALSE
    /\ ~Falsy(modified_plan)
    /\ \A a \in Reach(heap, modified_plan) : "Node Type" \in DOMAIN heap[a]

\* C5: modify_join_order with an id list one of whose ids, at whatever
\* position, identifies no node of the working tree returns False and has
\* exchanged no child list.
C5_JoinOrderAllOrNothing ==
    [][(call.op = "modify_join_order"
            /\ \E i \in DOMAIN call.args[1] : Unresolved(call.args[1][i])) =>
          /\ last'.ret = FALSE
          /\ heap' = heap]_vars

\* modify_join_order has failed on a working tree all of whose nodes have a
\* child list: an id of the list identified no node
C5_Witness ==
    /\ last.op = "modify_join_order"
    /\ last.ret = FALSE
    /\ Cardinality(Reach(heap, modified_plan)) > 2
    /\ \A a \in Reach(heap, modified_plan) : "Plans" \in DOMAIN heap[a]

\* C6: whenever modify_operator or modify_join_order returns False, the
\* working tree and the log are what they were before the call.
C6_NoPartialMutation ==
    [][(call.op \in {"modify_operator", "modify_join_order"} /\ last'.ret = FALSE) =>
          /\ PlanVal(heap', modified_plan') = PlanVal(heap, modified_plan)
          /\ modifications' = modifications]_vars

\* the exchange of the child lists of two nodes
Exchange(h, a, b) ==
    [h EXCEPT ![a]["Plans"] = h[b]["Plans"], ![b]["Plans"] = h[a]["Plans"]]

\* the exchanges of ns[i] and ns[i + 1] for i = 1 .. Len(ns) - 1, in that order
RECURSIVE Pipeline(_, _)
Pipeline(h, ns) ==
    IF Len(ns) < 2 THEN h
    ELSE Pipeline(Exchange(h, ns[1], ns[2]), Tail(ns))

\* C7: a successful modify_join_order([n1 .. nN]) leaves the tree that the
\* exchanges of ni and n(i+1), i = 1 .. N-1, made one after the other leave;
\* for distinct nodes each ni ends with the children n(i+1) had and nN with
\* those n1 had; no node changes another attribute.
C7_JoinOrderPipeline ==
    [][(call.op = "modify_join_order" /\ last'.ret = TRUE) =>
          LET ns == [i \in DOMAIN call.args[1] |-> IntOf(call.args[1][i])]
              N  == Len(ns)
          IN  /\ \A a \in DOMAIN heap' : heap'[a] = Pipeline(heap, ns)[a]
              /\ (N >= 2 /\ \A i, j \in 1..N : ns[i] = ns[j] => i = j) =>
                    \A i \in 1..N :
                        ns[i] \in DOMAIN heap' =>
                            heap'[ns[i]]["Plans"] = heap[ns[(i % N) + 1]]["Plans"]
              /\ \A a \in DOMAIN heap' :
                    /\ DOMAIN heap'[a] = DOMAIN heap[a]
                    /\ \A k \in DOMAIN heap[a] \ {"Plans"} : heap'[a][k] = heap[a][k]]_vars

\* the chain a -> b -> c after modify_join_order([a, b, c]): a -> c -> b
C7_Witness ==
    /\ last.op = "modify_join_order"
    /\ last.ret = TRUE
    /\ \E a, b, c \in Reach(heap, modified_plan) :
          /\ modified_plan["Plan"] = a
          /\ a < b /\ b < c
          /\ heap[a]["Plans"] = <<c>>
          /\ heap[c]["Plans"] = <<b>>
          /\ heap[b]["Plans"] = <<>>

\* the planner method the spec assigns to an operator kind, <<>> for a kind
\* outside the six
MethodOf(type) ==
    CASE type = HashJoin -> ENABLE_HASHJOIN
      [] type = MergeJoin -> ENABLE_MERGEJOIN
      [] type = NestedLoop -> ENABLE_NESTLOOP
      [] type = IndexScan -> ENABLE_INDEXSCAN
      [] type = SeqScan -> ENABLE_SEQSCAN
      [] type = BitmapScan -> ENABLE_BITMAPSCAN
      [] OTHER -> <<>>

\* the hints the spec describes: all methods enabled, then for each
\* modification with differing kinds the old kind's method off and the new
\* kind's method on
RECURSIVE DescribedHints(_, _)
DescribedHints(hints, mods) ==
    IF mods = <<>> THEN hints
    ELSE LET m   == Head(mods)
             off == IF m.current_type # m.target_type /\ MethodOf(m.current_type) # <<>>
                    THEN [hints EXCEPT ![MethodOf(m.current_type)] = FALSE] ELSE hints
             on  == IF m.current_type # m.target_type /\ MethodOf(m.target_type) # <<>>
                    THEN [off EXCEPT ![MethodOf(m.target_type)] = TRUE] ELSE off
         IN  DescribedHints(on, Tail(mods))

\* C8: generate_planner_hints starts from all six methods enabled and, for
\* every modification whose kinds differ, turns off the method of the old
\* kind and on the method of the new kind, for each of the six kinds (Nested
\* Loop to Hash Join yields enable_nestloop = false).
C8_HintsPerKind ==
    last.op = "generate_planner_hints" =>
        \A method \in PlannerMethod :
            /\ method \in DOMAIN last.ret
            /\ last.ret[method] =
                   DescribedHints([x \in PlannerMethod |-> TRUE], modifications)[method]

\* the index of the last modification naming a method, 0 if there is none
LastNaming(mods, method) ==
    LET named == {i \in DOMAIN mods :
                     /\ mods[i].current_type # mods[i].target_type
                     /\ method \in {MethodOf(mods[i].current_type),
                                    MethodOf(mods[i].target_type)}}
    IN  IF named = {} THEN 0 ELSE CHOOSE i \in named : \A j \in named : j <= i

\* C9: for every log and every method, the hint is what the last
\* modification naming the method wrote (false as its old kind, true as its
\* new kind), and true when no modification names it.
C9_LastWriteWins ==
    last.op = "generate_planner_hints" =>
        \A method \in PlannerMethod :
            LET i == LastNaming(modifications, method)
            IN  /\ method \in DOMAIN last.ret
                /\ last.ret[method] =
                       (i = 0 \/ MethodOf(modifications[i].target_type) = method)

\* C10: the keys of the mapping generate_planner_hints returns are exactly
\* the six planner method names, whatever kinds the log holds.
C10_HintKeysFixed ==
    last.op = "generate_planner_hints" => DOMAIN last.ret = PlannerMethod

\* the join kinds and the scan kinds of the operator universe
JoinKinds == {HashJoin, MergeJoin, NestedLoop}
ScanKinds == {SeqScan, IndexScan, BitmapScan, BitmapHeapScan, IndexOnlyScan}

\* the tokens of the modifications of a log whose target is among kinds, in
\* log order, each with the relations the token names
RECURSIVE Tokens(_, _, _)
Tokens(mods, kinds, first_only) ==
    IF mods = <<>> THEN <<>>
    ELSE LET m == Head(mods)
             relations == IF first_only THEN m.affected_tables[1]
                          ELSE Join(<<",">>, m.affected_tables)
         IN  (IF m.target_type \in kinds
              THEN StripSpaces(m.target_type) \o <<"(">> \o relations \o <<")", " ">>
              ELSE <<>>) \o Tokens(Tail(mods), kinds, first_only)

\* C11: generate_modified_sql returns '/*+ ', one token per modification
\* with a join target in log order, then one token per modification with a
\* scan target in log order, '*/ ' and the original SQL, and changes neither
\* tree nor the log.
C11_Directive ==
    [][call.op = "generate_modified_sql" =>
          /\ last'.ret.ok
          /\ last'.ret.value =
                 <<"/","*","+"," ">> \o Tokens(modifications, JoinKinds, FALSE)
                     \o Tokens(modifications, ScanKinds, TRUE)
                     \o <<"*","/"," ">> \o call.args[1]
          /\ UNCHANGED <<heap, original_plan, modified_plan, modifications>>]_vars

\* the four metrics of the root of a snapshot
RootMetrics(env) ==
    LET root == heap[env["Plan"]]
    IN  [total_cost   |-> IF "Total Cost" \in DOMAIN root THEN root["Total Cost"] ELSE 0,
         startup_cost |-> IF "Startup Cost" \in DOMAIN root THEN root["Startup Cost"] ELSE 0,
         plan_rows    |-> IF "Plan Rows" \in DOMAIN root THEN root["Plan Rows"] ELSE 0,
         plan_width   |-> IF "Plan Width" \in DOMAIN root THEN root["Plan Width"] ELSE 0]

\* both snapshots exist and the original root's total cost is not 0
Comparable ==
    /\ ~Falsy(original_plan)
    /\ ~Falsy(modified_plan)
    /\ RootMetrics(original_plan).total_cost # 0

\* C12: when both snapshots exist and the original total cost is not 0,
\* compare_plans returns the difference modified - original of the root total
\* costs, that difference as a percentage of the original total cost, and
\* the four root metrics of each tree; 1000 against 1200 gives 200 and 20.
C12_CostComparison ==
    (last.op = "compare_plans" /\ Comparable) =>
        LET o == RootMetrics(original_plan)
            m == RootMetrics(modified_plan)
            c == last.ret.value
        IN  /\ last.ret.ok
            /\ c.cost_difference = m.total_cost - o.total_cost
            /\ c.cost_percentage.den > 0
            /\ c.cost_percentage.num * o.total_cost
                   = (m.total_cost - o.total_cost) * 100 * c.cost_percentage.den
            /\ c.original_metrics = o
            /\ c.modified_metrics = m
            /\ (o.total_cost = 1000 /\ m.total_cost = 1200) =>
                   /\ c.cost_difference = 200
                   /\ c.cost_percentage = [num |-> 20, den |-> 1]

C12_Witness ==
    /\ last.op = "compare_plans"
    /\ Comparable
    /\ RootMetrics(original_plan).total_cost = 1000
    /\ RootMetrics(modified_plan).total_cost = 1200
    /\ RootMetrics(modified_plan).startup_cost # RootMetrics(original_plan).startup_cost
    /\ last.ret.ok
    /\ last.ret.value.cost_difference = 200

\* C13: when the original root's total cost is 0 or absent, compare_plans
\* returns a record with a defined cost_percentage and raises nothing.
C13_ZeroBaseline ==
    (/\ last.op = "compare_plans"
     /\ ~Falsy(original_plan)
     /\ ~Falsy(modified_plan)
     /\ RootMetrics(original_plan).total_cost = 0) =>
        /\ last.ret.ok
        /\ "cost_percentage" \in DOMAIN last.ret.value

\* C14: after a successful operator or join order modification for which
\* the planner returns a new plan, the comparison given to the presentation
\* layer is the one between the original plan and that new plan: its
\* cost_difference is the new plan's root total cost minus the original's.
C14_ComparisonOfNewPlan ==
    (/\ last.op \in {"handle_operator_modification", "handle_join_order_modification"}
     /\ last.shown = "comparison") =>
        gui.comparison.cost_difference =
            gui.aqp["Plan"]["Total Cost"] - RootMetrics(original_plan).total_cost

\* C15: set_original_plan(plan) makes both snapshots deep copies equal in
\* value to plan and leaves the log empty, in every state in which it is
\* called, also when the log holds entries from an earlier plan.
C15_SetClearsLog ==
    [][call.op = "set_original_plan" =>
          /\ PlanVal(heap', original_plan') = PlanVal(heap', plan')
          /\ PlanVal(heap', modified_plan') = PlanVal(heap', plan')
          /\ Reach(heap', original_plan') \cap Reach(heap', plan') = {}
          /\ Reach(heap', modified_plan') \cap Reach(heap', plan') = {}
          /\ Reach(heap', original_plan') \cap Reach(heap', modified_plan') = {}
          /\ modifications' = <<>>]_vars

\* C16: once set, the original tree keeps the value the plan had when it was
\* set, and shares no node with the working tree or with the caller's plan.
C16_OriginalImmutable ==
    ~Falsy(original_plan) =>
        /\ PlanVal(heap, original_plan) = given
        /\ Reach(heap, original_plan) \cap Reach(heap, modified_plan) = {}
        /\ Reach(heap, original_plan) \cap Reach(heap, plan) = {}

C16_Witness ==
    /\ ~Falsy(original_plan)
    /\ last.op = "modify_join_order"
    /\ last.ret = TRUE
    /\ modifications # <<>>
    /\ PlanVal(heap, modified_plan) # PlanVal(heap, original_plan)
    /\ Kids(heap, original_plan["Plan"]) # <<>>
    /\ Kids(heap, modified_plan["Plan"]) = <<>>

\* C17: modify_operator and modify_join_order on a modifier with no plan
\* set return False and leave snapshots and log as they were.
C17_NoPlanFails ==
    [][(call.op \in {"modify_operator", "modify_join_order"} /\ Falsy(modified_plan)) =>
          /\ last'.ret = FALSE
          /\ UNCHANGED <<heap, original_plan, modified_plan, modifications>>]_vars

C17_Witness ==
    /\ Falsy(modified_plan)
    /\ Falsy(original_plan)
    /\ last.op = "modify_join_order"
    /\ last.ret = FALSE

\* s is an initial part of t
IsPrefix(s, t) == Len(s) <= Len(t) /\ SubSeq(t, 1, Len(s)) = s

\* C18: every operation other than reset_modifications leaves the previous
\* log as a prefix of the new log, and a log that held entries becomes empty
\* only by reset_modifications.
C18_LogAppendOnly ==
    [][/\ call.op # "reset_modifications" => IsPrefix(modifications, modifications')
       /\ (modifications # <<>> /\ modifications' = <<>>) =>
              call.op = "reset_modifications"]_vars

C18_Witness ==
    /\ last.op = "set_original_plan"
    /\ Len(modifications) = MaxMods
    /\ modifications[1].node_id # modifications[2].node_id

\* C19: every successful mutation of the working copy, an operator change
\* or a join reorder, adds a record to the modification log.
C19_MutationsRecorded ==
    [][(/\ call.op \in {"modify_operator", "modify_join_order"}
        /\ last'.ret = TRUE
        /\ PlanVal(heap', modified_plan') # PlanVal(heap, modified_plan)) =>
          Len(modifications') = Len(modifications) + 1]_vars

\* the node a tree holds at the pre-order position that node a has in the
\* tree of another plan
Corresponding(h1, env1, a, h2, env2) ==
    LET order1 == PreOrder(h1, env1["Plan"], MaxAddr)
        order2 == PreOrder(h2, env2["Plan"], MaxAddr)
    IN  order2[CHOOSE k \in DOMAIN order1 : order1[k] = a]

\* C20: the id of a node of the plan given to set_original_plan identifies
\* the corresponding node of the working snapshot, and the id of a node of
\* the working tree identifies the corresponding node of the working tree
\* that reset_modifications puts in its place.
C20_IdsStable ==
    [][/\ call.op = "set_original_plan" =>
              \A a \in Reach(heap', plan') :
                  Locate(heap', modified_plan'["Plan"], IntOf(StrOf(a)), MaxAddr)
                      = Corresponding(heap', plan', a, heap', modified_plan')
       /\ (call.op = "reset_modifications" /\ ~Falsy(modified_plan)) =>
              \A a \in Reach(heap, modified_plan) :
                  CopySize(heap, modified_plan) = CopySize(heap', modified_plan') =>
                      Locate(heap', modified_plan'["Plan"], IntOf(StrOf(a)), MaxAddr)
                          = Corresponding(heap, modified_plan, a, heap', modified_plan')]_vars

\* the number of places in child lists of the working tree that hold node a
ParentCount(h, env, a) ==
    Cardinality({pi \in {<<p, i>> : p \in Reach(h, env), i \in 1..MaxAddr} :
                     pi[2] \in DOMAIN Kids(h, pi[1]) /\ Kids(h, pi[1])[pi[2]] = a})

\* C21: after any sequence of operator changes and join reorderings, also
\* ones naming a node with its ancestor or descendant, the working tree is
\* acyclic: no node is reachable from itself through child lists, the root
\* has no parent and every other node has exactly one parent.
C21_WorkingTreeAcyclic ==
    ~Falsy(modified_plan) =>
        \A a \in Reach(heap, modified_plan) :
            /\ a \notin Closure(heap, Range(Kids(heap, a)), MaxAddr)
            /\ ParentCount(heap, modified_plan, a)
                   = (IF a = modified_plan["Plan"] THEN 0 ELSE 1)

\* a reordering that named a node and its ancestor has succeeded and has
\* cut nodes off the working tree
C21_Witness ==
    /\ last.op = "modify_join_order"
    /\ last.ret = TRUE
    /\ Cardinality(Reach(heap, modified_plan)) < Cardinality(Reach(heap, original_plan))
    /\ Cardinality(Reach(heap, modified_plan)) > 1

\* C24: a successful modify_join_order leaves the set of nodes reachable
\* from the root of the working tree as it was, for every id list, also one
\* in which a named node is an ancestor of another.
C24_NodesConserved ==
    [][(call.op = "modify_join_order" /\ last'.ret = TRUE) =>
          Reach(heap', modified_plan') = Reach(heap, modified_plan)]_vars

\* a plan without the envelope key 'Plan' or with a node without 'Node Type'
Malformed(p) ==
    \/ "Plan" \notin DOMAIN p.env
    \/ \E a \in DOMAIN p.nodes : "Node Type" \notin DOMAIN p.nodes[a]

\* C22: set_original_plan answers a malformed plan with an invalid plan
\* structure error and keeps no snapshot of it, and no later compare_plans
\* call raises KeyError.
C22_MalformedRejected ==
    [][/\ (call.op = "set_original_plan" /\ Malformed(call.args[1])) =>
              /\ "ok" \in DOMAIN last'.ret
              /\ last'.ret = Raised("InvalidPlanStructure")
              /\ UNCHANGED <<original_plan, modified_plan>>
       /\ call.op = "compare_plans" => last'.ret # Raised("KeyError")]_vars

\* C23: generate_modified_sql returns a string and raises nothing for every
\* log built by successful modify_operator calls, also one that holds a
\* change to a scan kind of a node without relation name.
C23_DirectiveNeverRaises ==
    last.op = "generate_modified_sql" => last.ret.ok

\* C25: once a plan is set, the root of the working tree has the total
\* cost, startup cost, rows and width of the root of the original tree,
\* whatever operator changes, join reorderings and resets were made, and
\* compare_plans, when the original total cost is not 0, reports a
\* cost_difference and a cost_percentage of 0.
C25_RootMetricsEqual ==
    (~Falsy(original_plan) /\ ~Falsy(modified_plan)) =>
        /\ RootMetrics(modified_plan) = RootMetrics(original_plan)
        /\ (last.op = "compare_plans" /\ Comparable) =>
               /\ last.ret.ok
               /\ last.ret.value.cost_difference = 0
               /\ last.ret.value.cost_percentage = [num |-> 0, den |-> 1]

\* compare_plans has answered on a working tree whose root was given
\* another kind and has lost its child
C25_Witness ==
    /\ last.op = "compare_plans"
    /\ Comparable
    /\ last.ret.ok
    /\ last.ret.value.cost_difference = 0
    /\ modifications # <<>>
    /\ heap[modified_plan["Plan"]]["Node Type"] # heap[original_plan["Plan"]]["Node Type"]
    /\ Kids(heap, modified_plan["Plan"]) # Kids(heap, original_plan["Plan"])
    /\ Kids(heap, modified_plan["Plan"]) = <<>>

====
